---- MODULE Spec2Model ----
(***************************************************************************)
(* Model of src/src/lib/local-cache.ts: a TTL key/value cache with a       *)
(* periodic eviction sweep, an admission cap and a producer/waiter         *)
(* protocol (lockCallbacks).                                               *)
(*                                                                         *)
(* JavaScript runs every method body to completion on one thread, and the  *)
(* Promise executor of get() runs synchronously, so each public method and *)
(* each timer callback is one atomic action.  Date.now() is the variable   *)
(* now, advanced by Tick only.                                             *)
(*                                                                         *)
(* Keys range over ordinary strings (not the names of Object.prototype     *)
(* members, which the plain-object lockCallbacks would find by             *)
(* inheritance).  Values are JS numbers; 0 stands for the falsy values.    *)
(* Null stands for JS null.  The optional ttl argument is a sequence of    *)
(* length 0 (omitted) or 1.  Times are non-negative integers (ms).         *)
(***************************************************************************)
EXTENDS Integers, Sequences, FiniteSets, TLC

\* ---------------------------------------------------------------- bounds
MaxSuspended == 2   \* get() calls left pending in one behaviour
MaxNow == 2         \* the clock stops here
WaitMs == 2         \* a numeric wait argument, in ms (the test suite passes 2000)

\* ------------------------------------------------------ program constants
DEFAULT_TTL_MS == 5000
DEFAULT_CLEAN_CACHE_INTERVAL_MS == 30000

\* ---------------------------------------------------------------- inputs
Keys == {"a", "b"}
Values == {0, 1}
Null == -1
TtlArgs == {<<>>, <<0>>, <<1>>}
WaitArgs == {0, 1, WaitMs}          \* 0: omitted/false, 1: true, else a number
TickSteps == {1, WaitMs}
\* 0: the option is absent
OptionSets ==
    {[disabled |-> d, defaultTTLMs |-> t[1], cleanCacheIntervalMs |-> t[2],
      maxNumberOfCachedKeys |-> m] :
        d \in BOOLEAN, t \in {<<0, 0>>, <<2, 2>>}, m \in {0, 1, 2}}

\* options, ttl, cache, lockCallbacks: the fields of the class.
\* now: Date.now().  nextSweep: when the setInterval timer is next due.
\* promises: the promise of every get() call that was left pending, in call
\* order.  last: the latest call, its arguments and what it returned.
\* producers[k]: how many get(k, wait) calls took the branch of line 151-153
\* (no value, no registration: the caller is to produce the value) since the
\* latest accepted set(k, ...).
VARIABLES options, ttl, cache, lockCallbacks, now, nextSweep, promises, last,
          producers

vars == <<options, ttl, cache, lockCallbacks, now, nextSweep, promises, last,
          producers>>

\* ------------------------------------------------------------ JS helpers
\* JavaScript truthiness of a number or null
Truthy(v) == v # 0 /\ v # Null

\* a || b
Or(a, b) == IF Truthy(a) THEN a ELSE b

\* this.lockCallbacks[key] is truthy (an array, even empty, is truthy)
HasLock(key) == key \in DOMAIN lockCallbacks

Remove(f, key) == [k \in DOMAIN f \ {key} |-> f[k]]

Put(f, key, x) == [k \in DOMAIN f \cup {key} |-> IF k = key THEN x ELSE f[k]]

\* ------------------------------------------------------- private methods
size == Cardinality(DOMAIN cache)

\* mutant: the sweep does not look at the wait registrations
clearDeletesHeld == {key \in DOMAIN cache : cache[key].expiredOn <= now}

\* mutant: an entry is not swept at the instant it expires
clearDeletesLate ==
    {key \in DOMAIN cache : ~HasLock(key) /\ cache[key].expiredOn < now}

\* mutant: a registration with no waiter in it does not hold the entry
clearDeletesEmptyHold ==
    {key \in DOMAIN cache :
        /\ ~HasLock(key) \/ lockCallbacks[key] = <<>>
        /\ cache[key].expiredOn <= now}

\* the keys one run of clear() deletes
clearDeletes ==
    {key \in DOMAIN cache : ~HasLock(key) /\ cache[key].expiredOn <= now}

\* mutant: an entry is still returned at the instant it expires
getSyncAtExpiry(key) ==
    IF ~options.disabled
    THEN IF key \in DOMAIN cache
            /\ Truthy(cache[key].value)
            /\ cache[key].expiredOn >= now
         THEN cache[key].value
         ELSE Null
    ELSE Null

getSync(key) ==
    IF ~options.disabled
    THEN IF key \in DOMAIN cache
            /\ Truthy(cache[key].value)
            /\ cache[key].expiredOn > now
         THEN cache[key].value
         ELSE Null
    ELSE Null

\* callbacks.forEach((i) => i(value)): the promises after calling each
\* resolve function of the list, first to last
RECURSIVE forEachResolve(_, _, _)
forEachResolve(callbacks, value, ps) ==
    IF callbacks = <<>> THEN ps
    ELSE LET i == Head(callbacks)
             p == ps[i]
             q == [p EXCEPT !.value = IF p.n = 0 THEN value ELSE p.value,
                            !.n = p.n + 1]
         IN forEachResolve(Tail(callbacks), value, [ps EXCEPT ![i] = q])

\* the order in which unlockKey calls the resolve functions
wakeOrder(callbacks) == callbacks

\* mutant: only the first callback of the list is called
unlockKeyWakesFirst(key, value) ==
    IF HasLock(key)
    THEN /\ promises' = forEachResolve(IF lockCallbacks[key] = <<>> THEN <<>>
                                        ELSE <<Head(lockCallbacks[key])>>,
                                        value, promises)
         /\ lockCallbacks' = Remove(lockCallbacks, key)
    ELSE UNCHANGED <<promises, lockCallbacks>>

\* mutant: the registration is not deleted after its callbacks were called
unlockKeyKeepsList(key, value) ==
    IF HasLock(key)
    THEN /\ promises' = forEachResolve(wakeOrder(lockCallbacks[key]), value, promises)
         /\ UNCHANGED lockCallbacks
    ELSE UNCHANGED <<promises, lockCallbacks>>

unlockKey(key, value) ==
    IF HasLock(key)
    THEN /\ promises' = forEachResolve(wakeOrder(lockCallbacks[key]), value, promises)
         /\ lockCallbacks' = Remove(lockCallbacks, key)
    ELSE UNCHANGED <<promises, lockCallbacks>>

\* ------------------------------------------------------------ constructor
\* a call and what it returned: outcome is "stored", "threw" or "dropped" for
\* set(), "resolved" or "pending" for get(); result is what a get() resolved
\* with at once, and cleanCount for clear(); woken lists the resolve functions
\* a set() called, in order
Call(op, key, value, outcome, result, woken) ==
    [op |-> op, key |-> key, value |-> value,
     outcome |-> outcome, result |-> result, woken |-> woken]

constructor(opts) ==
    /\ options = opts
    /\ ttl = Or(opts.defaultTTLMs, DEFAULT_TTL_MS)
    /\ cache = <<>>
    /\ lockCallbacks = <<>>
    /\ now = 0
    /\ nextSweep = Or(opts.cleanCacheIntervalMs, DEFAULT_CLEAN_CACHE_INTERVAL_MS)
    /\ promises = <<>>
    /\ last = Call("new", "", Null, "ok", Null, <<>>)
    /\ producers = [k \in Keys |-> 0]

Init == \E opts \in OptionSets : constructor(opts)

\* --------------------------------------------------------- public methods
\* mutant: off by one, a write is admitted at size = max
admitsAtMax ==
    ~Truthy(options.maxNumberOfCachedKeys) \/ size <= options.maxNumberOfCachedKeys

admits ==
    ~Truthy(options.maxNumberOfCachedKeys) \/ size < options.maxNumberOfCachedKeys

effectiveTtl(ttlArg) == Or(IF ttlArg = <<>> THEN 0 ELSE ttlArg[1], ttl)

\* mutant: an overwrite keeps the expiry of the entry it replaces
storeKeepsExpiry(key, value, ttlArg) ==
    /\ cache' = Put(cache, key,
                    [value |-> value,
                     expiredOn |-> IF key \in DOMAIN cache
                                   THEN cache[key].expiredOn
                                   ELSE now + effectiveTtl(ttlArg)])
    /\ unlockKey(key, value)
    /\ last' = Call("set", key, value, "stored", Null,
                    IF HasLock(key) THEN wakeOrder(lockCallbacks[key]) ELSE <<>>)
    /\ producers' = [producers EXCEPT ![key] = 0]

\* mutant: the entry is stored but the waiters of the key are not woken
storeKeepsHold(key, value, ttlArg) ==
    /\ cache' = Put(cache, key,
                    [value |-> value, expiredOn |-> now + effectiveTtl(ttlArg)])
    /\ last' = Call("set", key, value, "stored", Null, <<>>)
    /\ producers' = [producers EXCEPT ![key] = 0]
    /\ UNCHANGED <<lockCallbacks, promises>>

\* the three ways out of set(): lines 125-129, 131-133, and the skipped body
store(key, value, ttlArg) ==
    /\ cache' = Put(cache, key,
                    [value |-> value, expiredOn |-> now + effectiveTtl(ttlArg)])
    /\ unlockKey(key, value)
    /\ last' = Call("set", key, value, "stored", Null,
                    IF HasLock(key) THEN wakeOrder(lockCallbacks[key]) ELSE <<>>)
    /\ producers' = [producers EXCEPT ![key] = 0]

\* mutant: the waiters are woken before the capacity error is thrown
throwAfterUnlock(key, value) ==
    /\ unlockKey(key, value)
    /\ last' = Call("set", key, value, "threw", Null, <<>>)
    /\ UNCHANGED <<cache, producers>>

\* mutant: the entry is written before the capacity error is thrown
throwAfterStore(key, value) ==
    /\ cache' = Put(cache, key, [value |-> value, expiredOn |-> now + ttl])
    /\ last' = Call("set", key, value, "threw", Null, <<>>)
    /\ UNCHANGED <<lockCallbacks, promises, producers>>

throw(key, value) ==
    /\ last' = Call("set", key, value, "threw", Null, <<>>)
    /\ UNCHANGED <<cache, lockCallbacks, promises, producers>>

drop(key, value) ==
    /\ last' = Call("set", key, value, "dropped", Null, <<>>)
    /\ UNCHANGED <<cache, lockCallbacks, promises, producers>>

\* mutant: set() does not look at options.disabled
setWhenDisabled(key, value, ttlArg) ==
    /\ IF admits
       THEN store(key, value, ttlArg)
       ELSE throw(key, value)
    /\ UNCHANGED <<options, ttl, now, nextSweep>>

set(key, value, ttlArg) ==
    /\ IF ~options.disabled
       THEN IF admits
            THEN store(key, value, ttlArg)
            ELSE throw(key, value)
       ELSE drop(key, value)
    /\ UNCHANGED <<options, ttl, now, nextSweep>>

\* the promise of a get() that was left pending: n counts the calls of its
\* resolve function, value is what the first of them passed
Pending == [value |-> Null, n |-> 0]

\* get() resolves at once with result (lines 143, 149, 158)
answer(key, result) ==
    /\ last' = Call("get", key, Null, "resolved", result, <<>>)
    /\ UNCHANGED <<lockCallbacks, promises, producers>>

\* mutant: the first waiting caller is answered but registers nothing
produceUnregistered(key, result) == answer(key, result)

\* lines 152-153: the first waiting caller creates the registration and is
\* answered at once
produce(key, result) ==
    /\ lockCallbacks' = Put(lockCallbacks, key, <<>>)
    /\ last' = Call("get", key, Null, "resolved", result, <<>>)
    /\ producers' = [producers EXCEPT ![key] = @ + 1]
    /\ UNCHANGED promises

\* line 155: resolve is pushed on the list and the promise stays pending
suspend(key) ==
    /\ Len(promises) < MaxSuspended
    /\ lockCallbacks' = [lockCallbacks EXCEPT ![key] = Append(@, Len(promises) + 1)]
    /\ promises' = Append(promises, Pending)
    /\ last' = Call("get", key, Null, "pending", Null, <<>>)
    /\ UNCHANGED producers

get(key, waitIfSetInProcess) ==
    LET result == getSync(key)
    IN /\ IF options.disabled
          THEN answer(key, Null)
          ELSE IF Truthy(result)
          THEN answer(key, result)
          ELSE IF Truthy(waitIfSetInProcess)
          THEN IF ~HasLock(key)
               THEN produce(key, result)
               ELSE suspend(key)
          ELSE answer(key, Null)
       /\ UNCHANGED <<options, ttl, cache, now, nextSweep>>

\* the setInterval callback
clear ==
    /\ now >= nextSweep
    /\ cache' = [k \in DOMAIN cache \ clearDeletes |-> cache[k]]
    /\ nextSweep' = now + Or(options.cleanCacheIntervalMs, DEFAULT_CLEAN_CACHE_INTERVAL_MS)
    /\ last' = Call("clear", "", Null, "ok", Cardinality(clearDeletes), <<>>)
    /\ UNCHANGED <<options, ttl, lockCallbacks, now, promises, producers>>

\* the clock
Tick ==
    /\ \E dt \in TickSteps : now + dt <= MaxNow /\ now' = now + dt
    /\ last' = Call("tick", "", Null, "ok", Null, <<>>)
    /\ UNCHANGED <<options, ttl, cache, lockCallbacks, nextSweep, promises, producers>>

Set == \E key \in Keys, value \in Values, ttlArg \in TtlArgs : set(key, value, ttlArg)

Get == \E key \in Keys, w \in WaitArgs : get(key, w)

Next == Set \/ Get \/ clear \/ Tick

Spec == Init /\ [][Next]_vars

\* callers that pass a number of milliseconds as the wait argument, as the
\* test suite does (src/tests/index.test.ts:90 and :135)
GetTimed == \E key \in Keys, w \in {0, WaitMs} : get(key, w)

NextTimed == Set \/ GetTimed \/ clear \/ Tick

SpecTimed == Init /\ [][NextTimed]_vars

\* ------------------------------------------------------------------------
\* Vocabulary of the properties
Accepted(c) == c.op = "set" /\ c.outcome = "stored"

Rejected(c) == c.op = "set" /\ c.outcome = "threw"

Ids(callbacks) == {callbacks[j] : j \in DOMAIN callbacks}

IsPrefix(p, q) == Len(p) <= Len(q) /\ \A j \in DOMAIN p : p[j] = q[j]

IsPending(p) == p.n = 0

\* the waiters suspended on key k
Waiters(k) == IF k \in DOMAIN lockCallbacks THEN lockCallbacks[k] ELSE <<>>

\* C1 (as claimed): on an enabled cache, an accepted set(k, v) followed
\* immediately by get(k) yields v, for every value v.
RoundTrip ==
    [][(Accepted(last) /\ last'.op = "get" /\ last'.key = last.key)
         => (last'.outcome = "resolved" /\ last'.result = last.value)]_vars

NoLiveEntry(k) == k \notin DOMAIN cache \/ cache[k].expiredOn <= now

WaitTimesOut ==
    [][now' >= now + WaitMs
         => \A i \in DOMAIN promises :
               IsPending(promises[i]) => promises'[i] = [value |-> Null, n |-> 1]]_vars

ExpiryOnRead ==
    /\ (last.op = "get" /\ last.outcome = "resolved" /\ last.result # Null)
         => /\ last.key \in DOMAIN cache
            /\ cache[last.key].value = last.result
            /\ cache[last.key].expiredOn > now
    /\ (Accepted(last) /\ last.woken # <<>>) => cache[last.key].expiredOn > now

\* C6 witness: a get returned NoValue for an entry that is still stored, held
\* by a wait registration, with a truthy value and expiredOn = now
ExpiryOnReadWitness ==
    /\ last.op = "get" /\ last.outcome = "resolved" /\ last.result = Null
    /\ last.key \in DOMAIN cache
    /\ last.key \in DOMAIN lockCallbacks
    /\ Truthy(cache[last.key].value)
    /\ cache[last.key].expiredOn = now

\* C7: with disabled = true the store and the registry stay empty, no get is
\* left pending, every get resolves at once with NoValue and no set throws.
DisabledNoOp ==
    options.disabled
      => /\ DOMAIN cache = {}
         /\ DOMAIN lockCallbacks = {}
         /\ promises = <<>>
         /\ last.op = "get" => (last.outcome = "resolved" /\ last.result = Null)
         /\ last.op = "set" => last.outcome = "dropped"

\* C7 witness: a disabled cache with a key cap, after the clock moved and a
\* set was called
DisabledNoOpWitness ==
    /\ options.disabled
    /\ options.maxNumberOfCachedKeys = 1
    /\ now > 0
    /\ last.op = "set"

\* C8: with maxNumberOfCachedKeys = N > 0 the store never holds more than N
\* entries, and a set throws exactly when the cache is enabled, N > 0 and the
\* number of stored entries (expired ones included) is >= N at the call.
CapacityBound ==
    /\ [](options.maxNumberOfCachedKeys > 0
            => Cardinality(DOMAIN cache) <= options.maxNumberOfCachedKeys)
    /\ [][last'.op = "set"
            => (last'.outcome = "threw"
                  <=> /\ ~options.disabled
                      /\ options.maxNumberOfCachedKeys > 0
                      /\ Cardinality(DOMAIN cache)
                            >= options.maxNumberOfCachedKeys)]_vars

\* C8 witness: N = 2, two entries stored, one of them expired and unswept,
\* and the write that followed was rejected
CapacityBoundWitness ==
    /\ options.maxNumberOfCachedKeys = 2
    /\ Cardinality(DOMAIN cache) = 2
    /\ \E k \in DOMAIN cache : cache[k].expiredOn <= now
    /\ Rejected(last)

\* C9: a set that throws changes no entry, no registration and no promise; and
\* an enabled set of a key that is already stored throws all the same when the
\* entry count is at the cap.
RejectedIsNoOp ==
    /\ [][Rejected(last')
            => /\ cache' = cache
               /\ lockCallbacks' = lockCallbacks
               /\ promises' = promises]_vars
    /\ [][(/\ last'.op = "set"
            /\ last'.key \in DOMAIN cache
            /\ ~options.disabled
            /\ options.maxNumberOfCachedKeys > 0
            /\ Cardinality(DOMAIN cache) >= options.maxNumberOfCachedKeys)
             => Rejected(last')]_vars

\* C9 witness: the rejected set was an overwrite of a stored key with another
\* value
RejectedIsNoOpWitness ==
    /\ Rejected(last)
    /\ last.key \in DOMAIN cache
    /\ cache[last.key].value # last.value

\* C10: a sweep deletes no entry whose key has a wait registration, and leaves
\* the registrations and the promises of the waiters as they are.
SweepRespectsHolds ==
    [][last'.op = "clear"
         => /\ lockCallbacks' = lockCallbacks
            /\ promises' = promises
            /\ \A k \in DOMAIN cache \cap DOMAIN lockCallbacks :
                  k \in DOMAIN cache' /\ cache'[k] = cache[k]]_vars

\* C10 witness: a sweep has just run and an expired entry whose key has a
\* pending waiter is still stored
SweepRespectsHoldsWitness ==
    /\ last.op = "clear"
    /\ \E k \in DOMAIN cache :
          /\ cache[k].expiredOn <= now
          /\ Waiters(k) # <<>>
          /\ \A i \in Ids(Waiters(k)) : IsPending(promises[i])

\* C11: after a sweep run at time now the store is the store before it
\* without exactly the entries that had expiredOn <= now and no wait
\* registration; every other entry is kept as it was and none is added.
SweepPostcondition ==
    [][last'.op = "clear"
         => LET gone == {k \in DOMAIN cache :
                            cache[k].expiredOn <= now /\ k \notin DOMAIN lockCallbacks}
            IN /\ DOMAIN cache' = DOMAIN cache \ gone
               /\ \A k \in DOMAIN cache' : cache'[k] = cache[k]
               /\ last'.result = Cardinality(gone)]_vars

\* C11 witness: a sweep has just deleted one entry, at the instant it expired
\* or later, and kept a live one
SweepPostconditionWitness ==
    /\ last.op = "clear"
    /\ last.result = 1
    /\ \E k \in DOMAIN cache : cache[k].expiredOn > now /\ ~HasLock(k)

\* the default TTL of the configuration: defaultTTLMs when configured, else
\* 5000 ms
ConfiguredTtl ==
    IF options.defaultTTLMs # 0 THEN options.defaultTTLMs ELSE DEFAULT_TTL_MS

\* C12 (as claimed): an accepted set(k, v, ttl) at time t stores
\* expiredOn = t + ttl for every supplied ttl, 0 included, and
\* expiredOn = t + default TTL only when ttl is omitted.
SuppliedTtlIsUsed ==
    [][\A k \in Keys, v \in Values, t \in TtlArgs :
          (/\ Accepted(last') /\ last'.key = k /\ last'.value = v
           /\ set(k, v, t))
            => cache'[k].expiredOn
                 = now + (IF t = <<>> THEN ConfiguredTtl ELSE t[1])]_vars

\* C13: after an accepted set(k, v, ttl) the entry of k is exactly
\* (v, now + effectiveTtl), whatever was stored for k before, k has no wait
\* registration, and the entries and registrations of all other keys are as
\* before.
AcceptedWriteEffect ==
    [][\A k \in Keys, v \in Values, t \in TtlArgs :
          (/\ Accepted(last') /\ last'.key = k /\ last'.value = v
           /\ set(k, v, t))
            => /\ DOMAIN cache' = DOMAIN cache \cup {k}
               /\ cache'[k] = [value |-> v, expiredOn |-> now + effectiveTtl(t)]
               /\ \A j \in DOMAIN cache \ {k} : cache'[j] = cache[j]
               /\ DOMAIN lockCallbacks' = DOMAIN lockCallbacks \ {k}
               /\ \A j \in DOMAIN lockCallbacks' :
                     lockCallbacks'[j] = lockCallbacks[j]]_vars

\* C13 witness: a set has overwritten nothing of the other key, which is
\* stored and has a pending waiter, and has drained its own registration
AcceptedWriteEffectWitness ==
    /\ Accepted(last)
    /\ last.woken # <<>>
    /\ \E j \in DOMAIN cache \ {last.key} :
          /\ Waiters(j) # <<>>
          /\ \A i \in Ids(Waiters(j)) : IsPending(promises[i])

\* C14 (as claimed): no get adds, deletes or alters an entry of the store; a
\* get(k) that meets a live entry of k, and any get without the wait request,
\* is answered at once and leaves the wait registry and the suspended callers
\* as they were; a get changes the registration of no key but its own.
ReadsDoNotMutate ==
    [][\A k \in Keys, w \in WaitArgs :
          (/\ last'.op = "get" /\ last'.key = k
           /\ get(k, w))
            => /\ cache' = cache
               /\ (~NoLiveEntry(k) \/ ~Truthy(w))
                    => /\ last'.outcome = "resolved"
                       /\ lockCallbacks' = lockCallbacks
                       /\ promises' = promises
               /\ \A j \in Keys \ {k} :
                     /\ HasLock(j)' = HasLock(j)
                     /\ Waiters(j)' = Waiters(j)]_vars

\* C15: whenever a wait registration exists for key k, the lookup of k finds
\* nothing, so a get(k) without the wait request yields NoValue; no caller is
\* suspended and no producer hold exists on a key whose value reads return.
NoWaiterOnValue ==
    /\ [](\A k \in DOMAIN lockCallbacks : getSync(k) = Null)
    /\ [][\A k \in Keys, w \in WaitArgs :
             (/\ last'.op = "get" /\ last'.key = k
              /\ HasLock(k) /\ ~Truthy(w)
              /\ get(k, w))
               => (last'.outcome = "resolved" /\ last'.result = Null)]_vars

\* C15 witness: a get without the wait request has just yielded NoValue for
\* a key that is stored, has a registration and a caller suspended on it
NoWaiterOnValueWitness ==
    /\ last.op = "get"
    /\ last.outcome = "resolved"
    /\ last.result = Null
    /\ last.key \in DOMAIN cache
    /\ Waiters(last.key) # <<>>

\* the store is full and every stored key has a wait registration
DeadEnd ==
    /\ options.maxNumberOfCachedKeys > 0
    /\ size = options.maxNumberOfCachedKeys
    /\ \A k \in DOMAIN cache : HasLock(k)

\* C16: with maxNumberOfCachedKeys = N > 0, a state in which the store holds
\* N entries and every stored key has a wait registration is never left:
\* from it every set is rejected, no sweep deletes anything, no registration
\* is drained and no suspended caller is resolved.
CapacityHoldDeadEnd ==
    [][DeadEnd
         => /\ DeadEnd'
            /\ cache' = cache
            /\ last'.op = "set" => Rejected(last')
            /\ last'.op = "clear" => last'.result = 0
            /\ \A k \in DOMAIN lockCallbacks :
                  HasLock(k)' /\ IsPrefix(lockCallbacks[k], lockCallbacks'[k])
            /\ \A i \in DOMAIN promises :
                  i \in DOMAIN promises' /\ promises'[i] = promises[i]]_vars

\* C16 witness: N = 1, the one stored key is expired and held with a caller
\* suspended on it, and a sweep has just run
CapacityHoldDeadEndWitness ==
    /\ DeadEnd
    /\ options.maxNumberOfCachedKeys = 1
    /\ last.op = "clear"
    /\ \E k \in DOMAIN cache :
          /\ cache[k].expiredOn <= now
          /\ \E i \in Ids(Waiters(k)) : IsPending(promises[i])

\* promise i belongs to a get suspended on key k / has been resolved
SuspendedOn(i, k) == i \in Ids(Waiters(k)) /\ IsPending(promises[i])

Resolved(i) == i \in DOMAIN promises /\ ~IsPending(promises[i])

\* every key with a registration eventually gets an accepted set
FairProducer ==
    \A k \in Keys : [](HasLock(k) => <>(Accepted(last) /\ last.key = k))

====
